---- MODULE Spec2Model ----
(***************************************************************************)
(* qtstorage: ExpiringStorage<K,V> (src/src/expiring-storage.h) and        *)
(* BlockingQueue<T> (src/src/blocking-queue.h).                            *)
(*                                                                         *)
(* Caller threads run insert/remove/take/clear/installExpirationHandler,   *)
(* each one a QWriteLocker section and therefore one atomic step.  The     *)
(* timers live in the thread of `ctx`; that thread's event loop delivers   *)
(* the queued "start" and "deleteLater" calls in posting order, one pass   *)
(* of posted events at a time, and dispatches expired timers between two   *)
(* passes.  The timeout lambda runs in that thread: it waits for the write *)
(* lock, takes the entry and the timer association, unlocks, and then      *)
(* calls the expiration handler.                                           *)
(*                                                                         *)
(* Three specifications share the initial state.  Spec is the storage with *)
(* its timers, every locked section one step.  SpecLock is the locking of  *)
(* the storage's methods alone, one step per lock call, section and unlock *)
(* call.  SpecQ is a BlockingQueue with producer and consumer threads.     *)
(***************************************************************************)
EXTENDS Integers, Sequences, FiniteSets, TLC

\* ---------------------------------------------------------------- bounds
MaxOps == 3
MaxLifetime == 1

Keys == {1, 2}
Values == {1, 2}
\* V(): the default-constructed value items.take() returns for an absent key
DefaultValue == 0
TimerIds == 1..MaxOps

\* BlockingQueue: enqueue calls, dequeue calls, the largest timeout in msec
MaxEnq == 2
MaxDeq == 3
MaxTimeout == 1
Items == {1, 2}
\* T(): the value dequeue returns when the wait failed
DefaultItem == 0
Producers == {"p1", "p2"}
Consumers == {"c1", "c2"}

\* the threads that call the storage's methods, and the thread of ctx
Callers == {"a", "b"}
CtxThread == "ctx"

\* ------------------------------------------------------- qint64 and int
\* A qint64 is kept as its upper 32 bits (hi, signed), bit 31 (b31) and its
\* low 31 bits (lo31): value = hi * 2^32 + b31 * 2^31 + lo31.
Int31Max == 2147483647

I64(hi, b31, lo31) == [hi |-> hi, b31 |-> b31, lo31 |-> lo31]

\* variant: the test written lifetimeMsec >= 0
IsNotNegative(x) == x.hi >= 0

\* lifetimeMsec > 0
IsPositive(x) == x.hi > 0 \/ (x.hi = 0 /\ (x.b31 = 1 \/ x.lo31 > 0))

\* int(lifetimeMsec): the low 32 bits read as a two's complement int
ToInt(x) == IF x.b31 = 1 THEN (x.lo31 - Int31Max) - 1 ELSE x.lo31

\* 0 (the default argument), 1..MaxLifetime, and 4294967295 = 2^32 - 1
Lifetimes ==
    {I64(0, 0, n) : n \in 0..MaxLifetime} \cup {I64(0, 1, Int31Max)}

\* ------------------------------------------------------------ QMap
MapInsert(m, k, v) == [x \in DOMAIN m \cup {k} |-> IF x = k THEN v ELSE m[x]]
MapRemove(m, k) == [x \in DOMAIN m \ {k} |-> m[x]]
MapTake(m, k) == IF k \in DOMAIN m THEN m[k] ELSE DefaultValue
MinKey(S) == CHOOSE k \in S : \A j \in S : k <= j

VARIABLES
    items,              \* QMap<K,V> items
    timers,             \* QMap<K,QTimer*> timers
    expirationHandler,  \* TRUE when a handler is installed (not nullptr)
    qtimers,            \* the QTimer objects that exist, by identity
    posted,             \* posted events of the thread of ctx, oldest first
    ev,                 \* where the thread of ctx is
    nOps,               \* history: number of caller operations so far
    entry,              \* history: per key in items, the insert that wrote it
    cancel,             \* history: per key, the last cancelling operation
    mtx,                \* QReadWriteLock mtx of the storage: who holds it
    th,                 \* per thread, the storage method it is in and where
    qItems,             \* QQueue<T> items of the queue
    semaphore,          \* QSemaphore semaphore: available()
    qMtx,               \* QReadWriteLock mtx of the queue: the write holder
    qpc,                \* per thread, where it is in enqueue or dequeue
    nDeq,               \* history: number of dequeue calls so far
    enqLog,             \* history: the items in the order items.enqueue ran
    deqLog              \* history: the items in the order items.dequeue ran

storeVars == <<items, timers, expirationHandler, qtimers, posted, ev, nOps,
               entry, cancel>>
lockVars == <<mtx, th>>
queueVars == <<qItems, semaphore, qMtx, qpc, nDeq, enqLog, deqLog>>

vars == <<storeVars, lockVars, queueVars>>

\* history of an entry: the operation that inserted it, whether the key was
\* absent before, its lifetime, and the time since (counted up to the lifetime)
NoEntry == [gen |-> 0, fresh |-> FALSE, life |-> I64(0, 0, 0), age |-> 0]

\* pc: "posted" (delivering posted events), "timers" (dispatching timers),
\* "locking" (in the timeout lambda, before mtx.lockForWrite() returns),
\* "handler" (after mtx.unlock(), before the handler call).  timer, key and
\* value are the lambda's timer, captured key and taken value.  History: arm
\* is the insert whose start armed the timer, since the number of caller
\* operations when it fired, taken the entry it took, own whether it was the
\* timer registered for the key, touched whether the key was inserted again
\* after the lambda unlocked.
Idle(pc) == [pc |-> pc, timer |-> 0, key |-> 0, value |-> DefaultValue,
             arm |-> 0, since |-> 0, taken |-> NoEntry, own |-> FALSE,
             touched |-> FALSE]

\* The timeout lambda of some timer of key k has been entered and has not
\* returned.
InFlight(k) == ev.pc \in {"locking", "handler"} /\ ev.key = k

\* the lifetime the caller asked for has passed since the insert
LifetimeElapsed(e) ==
    e.life.hi = 0 /\ e.life.b31 = 0 /\ e.age >= e.life.lo31

\* the clock still counts for this entry
Ageing(e) == e.life.hi = 0 /\ e.life.b31 = 0 /\ e.age < e.life.lo31

\* QReadWriteLock: nobody holds it
Unlocked == [writer |-> "none", readers |-> {}]

\* a thread that is in no method of the storage
Outside == [pc |-> "out", op |-> "none"]

\* a thread that is in no enqueue call
IdleProducer == [pc |-> "idle", item |-> DefaultItem]

\* a thread that is in no dequeue call and has made none.  timeout is the
\* argument, wait int(timeout), left the time left of a bounded wait; done,
\* ok and ret are the last call's return, *ok and return value.  History:
\* called whether the thread ever called dequeue, owed whether more enqueue
\* calls had returned than dequeue calls had been made when this one began.
IdleConsumer == [pc |-> "idle", timeout |-> I64(0, 0, 0), wait |-> 0,
                 left |-> 0, done |-> FALSE, ok |-> FALSE,
                 ret |-> DefaultItem, called |-> FALSE, owed |-> FALSE]

Init ==
    /\ items = <<>>
    /\ timers = <<>>
    /\ expirationHandler = FALSE
    /\ qtimers = <<>>
    /\ posted = <<>>
    /\ ev = Idle("posted")
    /\ nOps = 0
    /\ entry = <<>>
    /\ cancel = [k \in Keys |-> "none"]
    /\ mtx = Unlocked
    /\ th = [t \in Callers \cup {CtxThread} |-> Outside]
    /\ qItems = <<>>
    /\ semaphore = 0
    /\ qMtx = "none"
    /\ qpc = [t \in Producers \cup Consumers |->
                IF t \in Producers THEN IdleProducer ELSE IdleConsumer]
    /\ nDeq = 0
    /\ enqLog = <<>>
    /\ deqLog = <<>>

\* --------------------------------------------------------------- timers
\* new QTimer; moveToThread; setSingleShot(true); connect(timeout, lambda)
createTimer(key) ==
    [key |-> key, running |-> FALSE, remaining |-> 0,
     deleteLaterCalled |-> FALSE, arm |-> 0]

NewTimerId == CHOOSE t \in TimerIds \ DOMAIN qtimers :
                  \A u \in TimerIds \ DOMAIN qtimers : t <= u

\* variant: a timer is created without looking the key up
watchTimerAlways(key) == NewTimerId

\* timers.find(key), or a timer created for key when there is none
watchTimer(key) ==
    IF key \in DOMAIN timers THEN timers[key] ELSE NewTimerId

watch(key, lifetimeMsec) ==
    LET t == watchTimer(key) IN
    /\ timers' = MapInsert(timers, key, t)
    /\ qtimers' = IF t \in DOMAIN qtimers THEN qtimers
                  ELSE MapInsert(qtimers, t, createTimer(key))
    /\ posted' = Append(posted, [type |-> "start", timer |-> t,
                                 msec |-> ToInt(lifetimeMsec),
                                 gen |-> nOps + 1])

\* variant: the association is left in the table
removeTimerKeep(tm, key) == tm

\* timers.take(key): the table afterwards
removeTimerTable(tm, key) == MapRemove(tm, key)

\* if (timerObject) invokeMethod(timerObject, "deleteLater", Queued)
removeTimerPosted(q, tm, key) ==
    IF key \in DOMAIN tm
    THEN Append(q, [type |-> "deleteLater", timer |-> tm[key],
                    msec |-> 0, gen |-> 0])
    ELSE q

\* for (key : timers.keys()) removeTimer(key), keys in ascending order:
\* the posted events and the timer table afterwards
RECURSIVE clearTimers(_, _, _)
clearTimers(keys, q, tm) ==
    IF keys = {} THEN [posted |-> q, timers |-> tm]
    ELSE LET k == MinKey(keys) IN
         clearTimers(keys \ {k}, removeTimerPosted(q, tm, k),
                     removeTimerTable(tm, k))

\* ------------------------------------------------------- caller threads
insert(key, value, lifetimeMsec) ==
    /\ nOps < MaxOps
    /\ items' = MapInsert(items, key, value)
    /\ IF IsPositive(lifetimeMsec)
       THEN watch(key, lifetimeMsec)
       ELSE UNCHANGED <<timers, qtimers, posted>>
    /\ nOps' = nOps + 1
    /\ entry' = MapInsert(entry, key,
                    [gen |-> nOps + 1, fresh |-> key \notin DOMAIN items,
                     life |-> lifetimeMsec, age |-> 0])
    /\ cancel' = [cancel EXCEPT ![key] = "none"]
    /\ ev' = IF ev.pc = "handler" /\ ev.key = key
             THEN [ev EXCEPT !.touched = TRUE] ELSE ev
    /\ UNCHANGED expirationHandler
    /\ UNCHANGED <<lockVars, queueVars>>

Cancelled(k, how) ==
    IF InFlight(k) THEN cancel[k] ELSE how

remove(key) ==
    /\ nOps < MaxOps
    /\ timers' = removeTimerTable(timers, key)
    /\ posted' = removeTimerPosted(posted, timers, key)
    /\ items' = MapRemove(items, key)
    /\ nOps' = nOps + 1
    /\ entry' = MapRemove(entry, key)
    /\ cancel' = [cancel EXCEPT ![key] = Cancelled(key, "remove")]
    /\ UNCHANGED <<expirationHandler, qtimers, ev>>
    /\ UNCHANGED <<lockVars, queueVars>>

take(key) ==
    /\ nOps < MaxOps
    /\ timers' = removeTimerTable(timers, key)
    /\ posted' = removeTimerPosted(posted, timers, key)
    /\ items' = MapRemove(items, key)
    /\ nOps' = nOps + 1
    /\ entry' = MapRemove(entry, key)
    /\ cancel' = [cancel EXCEPT ![key] = Cancelled(key, "take")]
    /\ UNCHANGED <<expirationHandler, qtimers, ev>>
    /\ UNCHANGED <<lockVars, queueVars>>

clear ==
    /\ nOps < MaxOps
    /\ posted' = clearTimers(DOMAIN timers, posted, timers).posted
    /\ timers' = clearTimers(DOMAIN timers, posted, timers).timers
    /\ items' = <<>>
    /\ nOps' = nOps + 1
    /\ entry' = <<>>
    /\ cancel' = [k \in Keys |->
                    IF k \in DOMAIN items THEN Cancelled(k, "clear")
                    ELSE cancel[k]]
    /\ UNCHANGED <<expirationHandler, qtimers, ev>>
    /\ UNCHANGED <<lockVars, queueVars>>

installExpirationHandler ==
    /\ ~expirationHandler
    /\ expirationHandler' = TRUE
    /\ UNCHANGED <<items, timers, qtimers, posted, ev, nOps, entry, cancel>>
    /\ UNCHANGED <<lockVars, queueVars>>

\* read-only operations, as functions of the state
contains(key) == key \in DOMAIN items
value(key, defaultValue) ==
    IF key \in DOMAIN items THEN items[key] ELSE defaultValue
size == Cardinality(DOMAIN items)

\* ------------------------------------------------- the thread of ctx
\* QTimer::start(int msec) delivered: a negative interval registers no timer
StartTimer ==
    /\ ev.pc = "posted"
    /\ posted # <<>>
    /\ Head(posted).type = "start"
    /\ LET e == Head(posted) IN
       qtimers' = [qtimers EXCEPT ![e.timer] =
                     [@ EXCEPT !.running = (e.msec >= 0),
                               !.remaining = IF e.msec >= 0 THEN e.msec ELSE 0,
                               !.arm = e.gen]]
    /\ posted' = Tail(posted)
    /\ UNCHANGED <<items, timers, expirationHandler, ev, nOps, entry, cancel>>
    /\ UNCHANGED <<lockVars, queueVars>>

\* QObject::deleteLater() delivered: posts the DeferredDelete event
DeleteLater ==
    /\ ev.pc = "posted"
    /\ posted # <<>>
    /\ Head(posted).type = "deleteLater"
    /\ LET e == Head(posted) IN
       /\ qtimers' = [qtimers EXCEPT ![e.timer].deleteLaterCalled = TRUE]
       /\ posted' = Append(Tail(posted),
                           [type |-> "DeferredDelete", timer |-> e.timer,
                            msec |-> 0, gen |-> 0])
    /\ UNCHANGED <<items, timers, expirationHandler, ev, nOps, entry, cancel>>
    /\ UNCHANGED <<lockVars, queueVars>>

\* DeferredDelete delivered: the QTimer is destroyed, with its posted events
DeferredDelete ==
    /\ ev.pc = "posted"
    /\ posted # <<>>
    /\ Head(posted).type = "DeferredDelete"
    /\ LET t == Head(posted).timer IN
       /\ qtimers' = MapRemove(qtimers, t)
       /\ posted' = SelectSeq(Tail(posted), LAMBDA e : e.timer # t)
    /\ UNCHANGED <<items, timers, expirationHandler, ev, nOps, entry, cancel>>
    /\ UNCHANGED <<lockVars, queueVars>>

\* the pass over the posted events ends when none is left
EndPass ==
    /\ ev.pc = "posted"
    /\ posted = <<>>
    /\ ev' = Idle("timers")
    /\ UNCHANGED <<items, timers, expirationHandler, qtimers, posted, nOps,
                   entry, cancel>>
    /\ UNCHANGED <<lockVars, queueVars>>

\* the dispatcher returns to the posted events
EndTimers ==
    /\ ev.pc = "timers"
    /\ posted # <<>>
    /\ ev' = Idle("posted")
    /\ UNCHANGED <<items, timers, expirationHandler, qtimers, posted, nOps,
                   entry, cancel>>
    /\ UNCHANGED <<lockVars, queueVars>>

\* an expired single-shot timer stops and emits timeout: the lambda is entered
Timeout(t) ==
    /\ ev.pc = "timers"
    /\ t \in DOMAIN qtimers
    /\ qtimers[t].running
    /\ qtimers[t].remaining = 0
    /\ qtimers' = [qtimers EXCEPT ![t].running = FALSE]
    /\ ev' = [Idle("locking") EXCEPT !.timer = t, !.key = qtimers[t].key,
                                     !.arm = qtimers[t].arm, !.since = nOps]
    /\ UNCHANGED <<items, timers, expirationHandler, posted, nOps, entry,
                   cancel>>
    /\ UNCHANGED <<lockVars, queueVars>>

\* variant: the lambda reads the value and leaves the entry
timeoutItemsKeep(its, key) == its

\* items.take(key): the map afterwards
timeoutItems(its, key) == MapRemove(its, key)

\* mtx.lockForWrite(); value = items.take(key); removeTimer(key); mtx.unlock()
TimeoutLocked ==
    /\ ev.pc = "locking"
    /\ items' = timeoutItems(items, ev.key)
    /\ timers' = removeTimerTable(timers, ev.key)
    /\ posted' = removeTimerPosted(posted, timers, ev.key)
    /\ entry' = MapRemove(entry, ev.key)
    /\ ev' = [ev EXCEPT !.pc = "handler",
                        !.value = MapTake(items, ev.key),
                        !.taken = IF ev.key \in DOMAIN entry
                                  THEN entry[ev.key] ELSE NoEntry,
                        !.own = (ev.key \in DOMAIN timers
                                 /\ timers[ev.key] = ev.timer)]
    /\ UNCHANGED <<expirationHandler, qtimers, nOps, cancel>>
    /\ UNCHANGED <<lockVars, queueVars>>

\* The lambda is about to run `if (expirationHandler) expirationHandler(key,
\* value)` with a handler installed: the handler is invoked with (ev.key,
\* ev.value).
HandlerInvoked == ev.pc = "handler" /\ expirationHandler

\* if (expirationHandler) expirationHandler(key, value); the lambda returns
TimeoutHandler ==
    /\ ev.pc = "handler"
    /\ ev' = Idle("timers")
    /\ UNCHANGED <<items, timers, expirationHandler, qtimers, posted, nOps,
                   entry, cancel>>
    /\ UNCHANGED <<lockVars, queueVars>>

\* one millisecond passes
Tick ==
    /\ \/ \E t \in DOMAIN qtimers :
             qtimers[t].running /\ qtimers[t].remaining > 0
       \/ \E k \in DOMAIN entry : Ageing(entry[k])
    /\ qtimers' = [t \in DOMAIN qtimers |->
                     IF qtimers[t].running /\ qtimers[t].remaining > 0
                     THEN [qtimers[t] EXCEPT !.remaining = @ - 1]
                     ELSE qtimers[t]]
    /\ entry' = [k \in DOMAIN entry |->
                   IF Ageing(entry[k])
                   THEN [entry[k] EXCEPT !.age = @ + 1] ELSE entry[k]]
    /\ UNCHANGED <<items, timers, expirationHandler, posted, ev, nOps, cancel>>
    /\ UNCHANGED <<lockVars, queueVars>>

Next ==
    \/ \E k \in Keys, v \in Values, l \in Lifetimes : insert(k, v, l)
    \/ \E k \in Keys : remove(k)
    \/ \E k \in Keys : take(k)
    \/ clear
    \/ installExpirationHandler
    \/ StartTimer
    \/ DeleteLater
    \/ DeferredDelete
    \/ EndPass
    \/ EndTimers
    \/ \E t \in TimerIds : Timeout(t)
    \/ TimeoutLocked
    \/ TimeoutHandler
    \/ Tick

Spec == Init /\ [][Next]_vars

TypeOK ==
    /\ DOMAIN items \subseteq Keys
    /\ DOMAIN entry = DOMAIN items
    /\ DOMAIN qtimers \subseteq TimerIds
    /\ \A k \in DOMAIN timers : timers[k] \in DOMAIN qtimers
    /\ \A i \in 1..Len(posted) : posted[i].timer \in DOMAIN qtimers
    /\ nOps \in 0..MaxOps

\* ------------------------------------------- the storage's lock, mtx
\* the methods by the locker they open with: QWriteLocker, QReadLocker, none
WriteOps == {"insert", "remove", "take", "clear", "installExpirationHandler"}
ReadOps == {"value", "values", "contains", "size"}
IterOps == {"find", "begin", "end"}
Ops == WriteOps \cup ReadOps \cup IterOps

\* QReadWriteLock, not recursive: a write lock needs the lock free, a read
\* lock needs it free of a writer
canLockForWrite(m) == m.writer = "none" /\ m.readers = {}
canLockForRead(m) == m.writer = "none"
lockForWrite(m, t) == [m EXCEPT !.writer = t]
lockForRead(m, t) == [m EXCEPT !.readers = @ \cup {t}]
unlock(m, t) ==
    [writer |-> IF m.writer = t THEN "none" ELSE m.writer,
     readers |-> m.readers \ {t}]

\* the locker of method op can be constructed
canEnter(m, op) ==
    IF op \in WriteOps THEN canLockForWrite(m)
    ELSE IF op \in ReadOps THEN canLockForRead(m)
    ELSE TRUE

\* the lock once thread t is past the locker of method op
entered(m, t, op) ==
    IF op \in WriteOps THEN lockForWrite(m, t)
    ELSE IF op \in ReadOps THEN lockForRead(m, t)
    ELSE m

\* a caller thread calls a method: it is at the method's first line
Call(t, op) ==
    /\ th[t].pc = "out"
    /\ th' = [th EXCEPT ![t] = [pc |-> "locking", op |-> op]]
    /\ UNCHANGED mtx
    /\ UNCHANGED <<storeVars, queueVars>>

\* the locker is constructed (find, begin and end have none): the thread is
\* in the method's body, at its use of items
Enter(t) ==
    /\ th[t].pc = "locking"
    /\ th[t].op \in Ops
    /\ canEnter(mtx, th[t].op)
    /\ mtx' = entered(mtx, t, th[t].op)
    /\ th' = [th EXCEPT ![t].pc = "in"]
    /\ UNCHANGED <<storeVars, queueVars>>

\* the method returns: the locker, if any, unlocks
Leave(t) ==
    /\ th[t].pc = "in"
    /\ th[t].op \in Ops
    /\ mtx' = unlock(mtx, t)
    /\ th' = [th EXCEPT ![t] = Outside]
    /\ UNCHANGED <<storeVars, queueVars>>

\* a timer emits timeout: the lambda is entered, at mtx.lockForWrite()
LambdaCalled ==
    /\ th[CtxThread].pc = "out"
    /\ th' = [th EXCEPT ![CtxThread] = [pc |-> "locking", op |-> "timeout"]]
    /\ UNCHANGED mtx
    /\ UNCHANGED <<storeVars, queueVars>>

\* mtx.lockForWrite() returns
LambdaLock ==
    /\ th[CtxThread].pc = "locking"
    /\ th[CtxThread].op = "timeout"
    /\ canLockForWrite(mtx)
    /\ mtx' = lockForWrite(mtx, CtxThread)
    /\ th' = [th EXCEPT ![CtxThread].pc = "in"]
    /\ UNCHANGED <<storeVars, queueVars>>

\* variant: the lambda goes on to the handler without unlocking
lambdaUnlockNone(m) == m

\* mtx.unlock() in the lambda
lambdaUnlock(m) == unlock(m, CtxThread)

\* items.take(key); removeTimer(key); mtx.unlock(): the lambda is at
\* `if (expirationHandler) expirationHandler(key, value)`
LambdaUnlock ==
    /\ th[CtxThread].pc = "in"
    /\ th[CtxThread].op = "timeout"
    /\ mtx' = lambdaUnlock(mtx)
    /\ th' = [th EXCEPT ![CtxThread] = [pc |-> "handler", op |-> "none"]]
    /\ UNCHANGED <<storeVars, queueVars>>

\* the handler calls a method of the same storage
HandlerCall(op) ==
    /\ th[CtxThread].pc = "handler"
    /\ th[CtxThread].op = "none"
    /\ th' = [th EXCEPT ![CtxThread].op = op]
    /\ UNCHANGED mtx
    /\ UNCHANGED <<storeVars, queueVars>>

\* the locker of the method the handler called is constructed
HandlerEnter ==
    /\ th[CtxThread].pc = "handler"
    /\ th[CtxThread].op \in Ops
    /\ canEnter(mtx, th[CtxThread].op)
    /\ mtx' = entered(mtx, CtxThread, th[CtxThread].op)
    /\ th' = [th EXCEPT ![CtxThread].pc = "handler in"]
    /\ UNCHANGED <<storeVars, queueVars>>

\* the method the handler called returns to the handler
HandlerLeave ==
    /\ th[CtxThread].pc = "handler in"
    /\ mtx' = unlock(mtx, CtxThread)
    /\ th' = [th EXCEPT ![CtxThread] = [pc |-> "handler", op |-> "none"]]
    /\ UNCHANGED <<storeVars, queueVars>>

\* the handler and the lambda return
LambdaReturn ==
    /\ th[CtxThread].pc = "handler"
    /\ th[CtxThread].op = "none"
    /\ th' = [th EXCEPT ![CtxThread] = Outside]
    /\ UNCHANGED mtx
    /\ UNCHANGED <<storeVars, queueVars>>

NextLock ==
    \/ \E t \in Callers, op \in Ops : Call(t, op)
    \/ \E t \in Callers : Enter(t)
    \/ \E t \in Callers : Leave(t)
    \/ LambdaCalled
    \/ LambdaLock
    \/ LambdaUnlock
    \/ \E op \in Ops : HandlerCall(op)
    \/ HandlerEnter
    \/ HandlerLeave
    \/ LambdaReturn

SpecLock == Init /\ [][NextLock]_vars

\* ------------------------------------------------------- BlockingQueue
\* dequeue's timeout argument (qint64): -1 (the default), 0..MaxTimeout,
\* 4294967295 = 2^32 - 1 and -4294967295 = -(2^32) + 1
Timeouts ==
    {I64(0, 0, n) : n \in 0..MaxTimeout}
        \cup {I64(-1, 1, Int31Max), I64(0, 1, Int31Max), I64(-1, 0, 1)}

\* variant: release(2)
semReleaseTwo(n) == n + 2

\* semaphore.release(1)
semRelease(n) == n + 1

\* variant: the wait succeeds without taking a unit
semAcquireNone(n) == n

\* a successful semaphore.tryAcquire(1, msec)
semAcquire(n) == n - 1

\* variant: the newest item is returned
queueLast(q) == q[Len(q)]

\* items.dequeue(): the item returned
queueHead(q) == Head(q)

\* variant: the item is returned and left in the queue
queueKeep(q) == q

\* items.dequeue(): the queue afterwards
queueRest(q) == Tail(q)

\* history: the enqueue calls that have returned
EnqReturned ==
    Len(enqLog) - Cardinality({p \in Producers : qpc[p].pc # "idle"})

\* QWriteLocker locker(&mtx); items.enqueue(item);
EnqLock(p, item) ==
    /\ qpc[p].pc = "idle"
    /\ Len(enqLog) < MaxEnq
    /\ qMtx = "none"
    /\ qMtx' = p
    /\ qItems' = Append(qItems, item)
    /\ enqLog' = Append(enqLog, item)
    /\ qpc' = [qpc EXCEPT ![p] = [pc |-> "pushed", item |-> item]]
    /\ UNCHANGED <<semaphore, nDeq, deqLog>>
    /\ UNCHANGED <<storeVars, lockVars>>

\* semaphore.release(1);
EnqRelease(p) ==
    /\ qpc[p].pc = "pushed"
    /\ semaphore' = semRelease(semaphore)
    /\ qpc' = [qpc EXCEPT ![p].pc = "released"]
    /\ UNCHANGED <<qItems, qMtx, nDeq, enqLog, deqLog>>
    /\ UNCHANGED <<storeVars, lockVars>>

\* enqueue returns: the locker unlocks
EnqReturn(p) ==
    /\ qpc[p].pc = "released"
    /\ qMtx' = "none"
    /\ qpc' = [qpc EXCEPT ![p] = IdleProducer]
    /\ UNCHANGED <<qItems, semaphore, nDeq, enqLog, deqLog>>
    /\ UNCHANGED <<storeVars, lockVars>>

\* dequeue(timeout, &ok) is called: semaphore.tryAcquire(1, int(timeout))
\* begins.  A negative int waits without bound.
DeqCall(c, timeout) ==
    /\ qpc[c].pc = "idle"
    /\ nDeq < MaxDeq
    /\ nDeq' = nDeq + 1
    /\ qpc' = [qpc EXCEPT ![c] =
                 [pc |-> "waiting", timeout |-> timeout,
                  wait |-> ToInt(timeout),
                  left |-> IF ToInt(timeout) > 0 THEN ToInt(timeout) ELSE 0,
                  done |-> FALSE, ok |-> FALSE, ret |-> DefaultItem,
                  called |-> TRUE, owed |-> EnqReturned > nDeq]]
    /\ UNCHANGED <<qItems, semaphore, qMtx, enqLog, deqLog>>
    /\ UNCHANGED <<storeVars, lockVars>>

\* tryAcquire returns true: a unit was available
DeqAcquire(c) ==
    /\ qpc[c].pc = "waiting"
    /\ semaphore > 0
    /\ semaphore' = semAcquire(semaphore)
    /\ qpc' = [qpc EXCEPT ![c].pc = "acquired"]
    /\ UNCHANGED <<qItems, qMtx, nDeq, enqLog, deqLog>>
    /\ UNCHANGED <<storeVars, lockVars>>

\* tryAcquire returns false: the bounded wait has passed and no unit is
\* available.  if (ok) *ok = false; return T();
DeqTimeout(c) ==
    /\ qpc[c].pc = "waiting"
    /\ qpc[c].wait >= 0
    /\ qpc[c].left = 0
    /\ semaphore = 0
    /\ qpc' = [qpc EXCEPT ![c].pc = "idle", ![c].done = TRUE,
                          ![c].ok = FALSE, ![c].ret = DefaultItem]
    /\ UNCHANGED <<qItems, semaphore, qMtx, nDeq, enqLog, deqLog>>
    /\ UNCHANGED <<storeVars, lockVars>>

\* QWriteLocker locker(&mtx); if (ok) *ok = true; return items.dequeue();
\* items.dequeue() on an empty QQueue is undefined: the call is faulted, with
\* whatever value it may have read.
DeqTake(c) ==
    /\ qpc[c].pc = "acquired"
    /\ qMtx = "none"
    /\ IF qItems # <<>>
       THEN /\ qItems' = queueRest(qItems)
            /\ deqLog' = Append(deqLog, queueHead(qItems))
            /\ qpc' = [qpc EXCEPT ![c].pc = "idle", ![c].done = TRUE,
                                  ![c].ok = TRUE,
                                  ![c].ret = queueHead(qItems)]
       ELSE /\ \E r \in Items \cup {DefaultItem} :
                  qpc' = [qpc EXCEPT ![c].pc = "fault", ![c].ret = r]
            /\ UNCHANGED <<qItems, deqLog>>
    /\ UNCHANGED <<semaphore, qMtx, nDeq, enqLog>>
    /\ UNCHANGED <<storeVars, lockVars>>

\* one millisecond passes for the bounded waits
QTick ==
    /\ \E c \in Consumers : qpc[c].pc = "waiting" /\ qpc[c].left > 0
    /\ qpc' = [t \in DOMAIN qpc |->
                 IF t \in Consumers /\ qpc[t].pc = "waiting"
                    /\ qpc[t].left > 0
                 THEN [qpc[t] EXCEPT !.left = @ - 1] ELSE qpc[t]]
    /\ UNCHANGED <<qItems, semaphore, qMtx, nDeq, enqLog, deqLog>>
    /\ UNCHANGED <<storeVars, lockVars>>

NextQ ==
    \/ \E p \in Producers, item \in Items : EnqLock(p, item)
    \/ \E p \in Producers : EnqRelease(p)
    \/ \E p \in Producers : EnqReturn(p)
    \/ \E c \in Consumers, timeout \in Timeouts : DeqCall(c, timeout)
    \/ \E c \in Consumers : DeqAcquire(c)
    \/ \E c \in Consumers : DeqTimeout(c)
    \/ \E c \in Consumers : DeqTake(c)
    \/ QTick

SpecQ == Init /\ [][NextQ]_vars

\* ------------------------------------------------------------- properties
\* The lambda has taken an entry that was in the map before its timer fired.
TookEarlierEntry ==
    ev.pc = "handler" /\ ev.taken.gen # 0 /\ ev.taken.gen <= ev.since

\* C1: no stale expiry across generations: an entry inserted with a positive
\* lifetime is taken only by the timer registered for its key; a timer that
\* was created for an earlier entry of the key, removed or taken since, never
\* takes it.
C1_NoStaleExpiry ==
    (TookEarlierEntry /\ IsPositive(ev.taken.life)) => ev.own

\* C2: once remove(k) or take(k) has returned with no timeout of k under way,
\* and k has not been inserted again, the handler is not invoked for k.
C2_CancelledNeverFires ==
    HandlerInvoked => cancel[ev.key] \notin {"remove", "take"}

\* C3: an entry re-inserted with a positive lifetime over a pending timer is
\* taken by that timer only when the new lifetime has passed since the
\* re-insert (stated for the lifetimes that int holds).
C3_RearmedNotEarly ==
    (TookEarlierEntry /\ ev.own /\ IsPositive(ev.taken.life)
        /\ ToInt(ev.taken.life) > 0)
        => LifetimeElapsed(ev.taken)

\* Something is left that will make the entry of k expire: a timeout of k
\* under way, or the timer registered for k running or about to be started.
ExpiryPending(k) ==
    \/ InFlight(k)
    \/ /\ k \in DOMAIN timers
       /\ \/ qtimers[timers[k]].running
          \/ \E i \in 1..Len(posted) :
                posted[i].type = "start" /\ posted[i].timer = timers[k]

\* C4: every entry inserted with a positive lifetime and not touched since is
\* going to expire: as long as it is in the map its expiry is pending.
C4_ExpiryAssured ==
    \A k \in DOMAIN entry : IsPositive(entry[k].life) => ExpiryPending(k)

\* C5: after clear() the keys it removed are absent (size() is 0 when none was
\* inserted since), and the handler is not invoked for a key that clear()
\* removed and that was not inserted again.
C5_ClearCancels ==
    /\ \A k \in Keys : cancel[k] = "clear" => ~contains(k)
    /\ (\A k \in Keys : cancel[k] = "clear") => size = 0
    /\ HandlerInvoked => cancel[ev.key] # "clear"

\* C6 as stated: an entry written by insert(k, v, 0) over a pending timer
\* never expires, the timer registered for k does not take it.
C6_ZeroReinsertDisarms ==
    (TookEarlierEntry /\ ev.own) => IsPositive(ev.taken.life)

\* C6 as amended: insert(k, v, 0) on a key with a registered timer replaces
\* the value only: the timer table, the timer objects with their deadlines and
\* the posted timer events are unchanged, so the prior timer remains armed.
C6_ZeroReinsertKeepsTimer ==
    [][\A k \in Keys, v \in Values :
          (k \in DOMAIN timers /\ insert(k, v, I64(0, 0, 0)))
              => /\ timers' = timers
                 /\ qtimers' = qtimers
                 /\ posted' = posted
                 /\ items'[k] = v]_vars

\* an entry written with lifetime 0 whose key has a running registered timer
C6_Witness ==
    \E k \in DOMAIN timers :
        /\ ~IsPositive(entry[k].life)
        /\ qtimers[timers[k]].running

\* C7: a key that was absent when it was inserted with lifetime 0 never
\* expires: no timeout takes its entry.
C7_FreshZeroNeverExpires ==
    TookEarlierEntry => ~(ev.taken.fresh /\ ~IsPositive(ev.taken.life))

\* A timer that can still emit timeout: started, and not on its way to being
\* destroyed within the current pass over the posted events.
AbleToFire(t) == qtimers[t].running /\ ~qtimers[t].deleteLaterCalled

C9_TimersSubsetOfItems == DOMAIN timers \subseteq DOMAIN items

\* a timeout has removed its key while another key keeps its timer
C9_Witness == ev.pc = "handler" /\ ev.taken.gen # 0 /\ timers # <<>>

\* C10: when the handler is invoked for key k and k was not inserted again
\* after the timeout unlocked, k is absent from the map and the timer table.
C10_RemovedBeforeHandler ==
    (HandlerInvoked /\ ~ev.touched)
        => (~contains(ev.key) /\ ev.key \notin DOMAIN timers)

\* the handler is invoked with the value of an entry the timeout removed
C10_Witness ==
    HandlerInvoked /\ ~ev.touched /\ ev.taken.gen # 0 /\ ev.value \in Values

\* C11: the handler runs outside the lock.  When the lambda is at the handler
\* call the thread of ctx holds mtx neither for reading nor for writing, and
\* a method of the same storage that the handler calls is not left waiting:
\* its locker can be constructed, or a caller thread that holds the lock can
\* return and free it.
C11_HandlerOutsideLock ==
    th[CtxThread].pc = "handler" =>
        /\ mtx.writer # CtxThread
        /\ CtxThread \notin mtx.readers
        /\ th[CtxThread].op \in Ops =>
               ENABLED (HandlerEnter \/ \E t \in Callers : Leave(t))

\* the handler has called insert and is inside its QWriteLocker section
C11_Witness ==
    /\ th[CtxThread].pc = "handler in"
    /\ th[CtxThread].op = "insert"
    /\ mtx.writer = CtxThread

\* variant: remove reports true whatever it found
removeResultTrue(key) == TRUE

\* return items.remove(key) > 0;
removeResult(key) == key \in DOMAIN items

\* return items.take(key);
takeResult(key) == MapTake(items, key)

\* C12: an absent key is a no-op.  For k not in the map, remove(k) returns
\* false, take(k) returns V() and value(k, d) returns d; remove(k) and take(k)
\* leave the map, the timer table, the timer objects, the posted events, the
\* handler and the thread of ctx as they were, so no handler invocation
\* results.
C12_AbsentKeyNoOp ==
    [][\A k \in Keys :
          ~contains(k) =>
              /\ ~removeResult(k)
              /\ takeResult(k) = DefaultValue
              /\ \A d \in Values : value(k, d) = d
              /\ (remove(k) \/ take(k)) =>
                     /\ items' = items
                     /\ timers' = timers
                     /\ qtimers' = qtimers
                     /\ posted' = posted
                     /\ expirationHandler' = expirationHandler
                     /\ ev' = ev]_vars

\* remove(k) was the first operation, on the empty map
C12_Witness ==
    \E k \in Keys : nOps = 1 /\ cancel[k] = "remove" /\ items = <<>>

\* thread t is in the body of a method or of the lambda, at its use of items
InBody(t) == th[t].pc \in {"in", "handler in"}

\* thread t is in a section that changes the map or the timer table
InExclusiveSection(t) == InBody(t) /\ th[t].op \in WriteOps \cup {"timeout"}

\* C18: lock discipline.  A thread in a mutating method or in the lambda's
\* section holds mtx for writing; a thread in a read-only method, find, begin
\* and end included, holds it at least for reading; so no thread is at its
\* use of the map while another is in a section that changes it.
C18_LockDiscipline ==
    /\ \A t \in DOMAIN th : InExclusiveSection(t) => mtx.writer = t
    /\ \A t \in DOMAIN th :
          (InBody(t) /\ th[t].op \in ReadOps \cup IterOps)
              => (t \in mtx.readers \/ mtx.writer = t)
    /\ \A t, u \in DOMAIN th :
          (t # u /\ InExclusiveSection(t)) => ~InBody(u)

\* no consumer thread but c has ever called dequeue
SingleConsumer(c) == \A d \in Consumers \ {c} : ~qpc[d].called

\* C13: FIFO order.  The items leave the buffer in the order they entered it
\* (what has been dequeued, followed by what is buffered, is what was
\* enqueued), and with a single consumer a dequeue that began when more
\* enqueue calls had returned than dequeue calls had been made succeeds,
\* whatever its timeout, with the oldest item.
C13_FifoOrder ==
    /\ deqLog \o qItems = enqLog
    /\ \A c \in Consumers :
          (SingleConsumer(c) /\ qpc[c].owed /\ qpc[c].done)
              => /\ qpc[c].ok
                 /\ qpc[c].ret = enqLog[Len(deqLog)]

\* a single consumer has dequeued two different items after both enqueues
C13_Witness ==
    /\ SingleConsumer("c1")
    /\ qpc["c1"].done /\ qpc["c1"].owed /\ qpc["c1"].ok
    /\ Len(deqLog) = 2
    /\ deqLog[1] # deqLog[2]

\* the timeout argument is negative as the caller wrote it (qint64)
IsNegative(x) == x.hi < 0

\* C14: timeout outcome.  A dequeue call returns ok = false only when its
\* timeout was not negative and its wait passed with no unit available; it
\* then returns T() and leaves the buffer and the semaphore as they were.
C14_TimeoutOutcome ==
    [][\A c \in Consumers :
          (~qpc[c].done /\ qpc'[c].done /\ ~qpc'[c].ok)
              => /\ ~IsNegative(qpc[c].timeout)
                 /\ semaphore = 0
                 /\ qpc'[c].ret = DefaultItem
                 /\ qItems' = qItems
                 /\ semaphore' = semaphore]_vars

\* C15: a dequeue with a negative timeout does not return until an enqueue
\* has occurred, and then returns ok = true with an enqueued item.
C15_NegativeTimeoutWaitsForEnqueue ==
    \A c \in Consumers :
        (qpc[c].done /\ IsNegative(qpc[c].timeout))
            => /\ enqLog # <<>>
               /\ qpc[c].ok
               /\ qpc[c].ret \in Items

\* C16 as stated: the semaphore's count equals the length of the buffer; read
\* in the states where no thread is inside a locked section of the queue.
C16_CountEqualsLength == qMtx = "none" => semaphore = Len(qItems)

\* the dequeue calls holding a unit whose item is still in the buffer
UnitsHeld == Cardinality({c \in Consumers : qpc[c].pc = "acquired"})

\* the enqueue calls that have appended and not yet released
Unreleased == Cardinality({p \in Producers : qpc[p].pc = "pushed"})

\* C16 as amended: the count equals the length of the buffer less the items
\* of the dequeue calls that hold a unit and have not yet removed their
\* item, and less the item of an enqueue call that has appended and not yet
\* released; count and length are equal when no call is between those steps.
C16_CountTracksLength ==
    semaphore + UnitsHeld + Unreleased = Len(qItems)

\* a consumer holds a unit and its item is still buffered
C16_Witness == UnitsHeld > 0 /\ semaphore < Len(qItems) /\ Unreleased = 0

\* C17: a consumer that has acquired a unit finds the buffer non-empty when
\* it gets the lock: items.dequeue() never runs on an empty buffer.
C17_NeverDequeuesEmpty ==
    \A c \in Consumers :
        /\ qpc[c].pc # "fault"
        /\ (qpc[c].pc = "acquired" /\ qMtx = "none") => qItems # <<>>

\* two consumers hold a unit each, and the lock is free
C17_Witness ==
    /\ \A c \in Consumers : qpc[c].pc = "acquired"
    /\ qMtx = "none"

\* the number of places of sequence q that hold x
Count(q, x) == Cardinality({i \in 1..Len(q) : q[i] = x})

\* C19: conservation.  Every item enqueued is either buffered or was returned
\* by exactly one successful dequeue: the enqueues are as many as the
\* successful dequeues and the buffered items together, item by item.
C19_Conservation ==
    /\ Len(enqLog) = Len(deqLog) + Len(qItems)
    /\ \A x \in Items :
          Count(enqLog, x) = Count(deqLog, x) + Count(qItems, x)
    /\ \A c \in Consumers : (qpc[c].done /\ qpc[c].ok) => qpc[c].ret \in Items

\* two consumers have each returned an item and no call is in progress
C19_Witness ==
    /\ \A t \in Producers \cup Consumers : qpc[t].pc = "idle"
    /\ \A c \in Consumers : qpc[c].done /\ qpc[c].ok
    /\ Len(deqLog) = 2

\* C20: on a queue that has received no item, a dequeue whose timeout is not
\* negative waits a bounded time, after which it returns ok = false: the
\* wait it has begun is not the wait without bound.
C20_NonNegativeTimeoutIsBounded ==
    \A c \in Consumers :
        (enqLog = <<>> /\ qpc[c].pc = "waiting"
            /\ ~IsNegative(qpc[c].timeout))
            => qpc[c].wait >= 0
====
